---- MODULE Spec2Model ----
(***************************************************************************)
(* A model of the service locator of locator.go: the registry with its two *)
(* maps (instances, providers), the sync.RWMutex that guards them, the     *)
(* three registration operations, Get, and lazySingleton.getInstance with  *)
(* its sync.Once.  Every call of an operation runs in a goroutine of its   *)
(* own, so any number of calls can be in progress at once; a call is cut   *)
(* at the points where it takes or releases a lock or calls user code (a   *)
(* constructor).                                                           *)
(***************************************************************************)
EXTENDS Integers, Sequences, FiniteSets, TLC

\* ------------------------------------------------------------------ bounds
MaxRegs == 2       \* Register* calls in one behaviour
MaxGets == 2       \* Get calls in one behaviour

\* ------------------------------------------------------------------ types
\* The type parameters T the callers instantiate the generic functions with:
\* two pointer types and two interface types.  "*TestError" has an Error()
\* method, "*TestService" has no methods.
ConcreteTypes == {"*TestService", "*TestError"}
InterfaceTypes == {"any", "error"}
Types == ConcreteTypes \cup InterfaceTypes

\* The dynamic type of a nil interface value.
NilDyn == "<nil>"

\* Go's method-set rule: does the concrete type d implement interface I.
Implements(d, I) ==
    CASE I = "any" -> d \in ConcreteTypes
      [] I = "error" -> d = "*TestError"
      [] OTHER -> FALSE

Implementers(I) == {d \in ConcreteTypes : Implements(d, I)}

\* A Go value as the registry sees it once boxed in `any`: its dynamic type
\* and its identity (src = 0: made by the caller, src = r > 0: the n-th
\* result of the constructor of provider record r).
NilValue == [dyn |-> NilDyn, src |-> 0, n |-> 0]
Arg(d, i) == [dyn |-> d, src |-> 0, n |-> i]
Made(d, r, k) == [dyn |-> d, src |-> r, n |-> k]

\* `var zero T`: a nil interface for an interface type, else T's zero value.
Zero(T) == IF T \in InterfaceTypes THEN NilValue ELSE Arg(T, 0)

\* The dynamic types a value of static type T can have: T itself, or for an
\* interface type nil and the types that implement it.
Dyns(T) == IF T \in InterfaceTypes THEN {NilDyn} \cup Implementers(T) ELSE {T}

\* A non-zero value of dynamic type d and identity i; the nil interface value
\* has no identity.
Value(d, src, i) == IF d = NilDyn THEN NilValue ELSE [dyn |-> d, src |-> src, n |-> i]

\* reflect.TypeOf(v): the dynamic type of the boxed value, nil for a nil
\* interface value.
TypeOf(v) == v.dyn

\* fmt's %T verb: the dynamic type's name, "<nil>" for a nil interface.
FormatT(v) == v.dyn

\* fmt.Errorf("no provider registered for type %T", v)
Errorf(v) == "no provider registered for type " \o FormatT(v)

\* getTypeKey[T](): reflect.TypeOf of T's zero value.
getTypeKey(T) == TypeOf(Zero(T))

\* The type assertion instance.(T) on a boxed value: TRUE when it succeeds,
\* FALSE when it panics.
AssertsTo(v, T) ==
    IF T \in InterfaceTypes
    THEN v.dyn # NilDyn /\ Implements(v.dyn, T)
    ELSE v.dyn = T

\* ------------------------------------------------------------------ state
VARIABLES
    mu,         \* sl.mu: [writer: the call holding Lock (0: none), readers: the calls holding RLock]
    instances,  \* sl.instances: type key -> boxed value (a Go map: the domain is the set of keys present)
    providers,  \* sl.providers: type key -> provider value (an index into recs)
    recs,       \* the provider values ever stored: a *lazySingleton[T] or a Provider[T]
    calls       \* the calls made so far, in the order they began: each one's
                \* name, type parameter, argument, position, locals and result

vars == <<mu, instances, providers, recs, calls>>

Calls == 1..Len(calls)

\* The results a call can end with.  rec and inv are history: the provider
\* record that served a Get (0: none) and which invocation of its
\* constructor this very call made (0: it invoked nothing).
NoRet == [kind |-> "none", val |-> NilValue, err |-> "", rec |-> 0, inv |-> 0]
Void == [NoRet EXCEPT !.kind = "void"]
Ok(v, r, k) == [kind |-> "ok", val |-> v, err |-> "", rec |-> r, inv |-> k]
Err(T, e, r) == [kind |-> "err", val |-> Zero(T), err |-> e, rec |-> r, inv |-> 0]
Panic(r) == [kind |-> "panic", val |-> NilValue, err |-> "", rec |-> r, inv |-> 0]

\* A call as it begins: v is RegisterSingleton's `instance`, present tells
\* whether the `provider` passed is a func or nil, rec is Get's local
\* `provider` and getInstance's receiver `ls` (0: none).
Call(name, T, v, present, pc) ==
    [name |-> name, T |-> T, v |-> v, present |-> present, pc |-> pc, rec |-> 0, ret |-> NoRet]

\* New(): two empty maps, an unlocked mutex; nothing has been called yet.
Init ==
    /\ mu = [writer |-> 0, readers |-> {}]
    /\ instances = <<>>
    /\ providers = <<>>
    /\ recs = <<>>
    /\ calls = <<>>

\* ------------------------------------------------------------------ sync.RWMutex
CanLock == mu.writer = 0 /\ mu.readers = {}
CanRLock == mu.writer = 0
Locked(c) == [mu EXCEPT !.writer = c]
Unlocked == [mu EXCEPT !.writer = 0]
RLocked(c) == [mu EXCEPT !.readers = @ \cup {c}]
RUnlocked(c) == [mu EXCEPT !.readers = @ \ {c}]

Registrations == {"RegisterSingleton", "RegisterLazySingleton", "RegisterFactory"}
RegsBegun == Cardinality({c \in Calls : calls[c].name \in Registrations})
GetsBegun == Cardinality({c \in Calls : calls[c].name = "Get"})

Return(c, result) ==
    calls' = [calls EXCEPT ![c].pc = "done", ![c].ret = result]

Goto(c, next) ==
    calls' = [calls EXCEPT ![c].pc = next]

\* ------------------------------------------------------------------ RegisterSingleton
\* A call of RegisterSingleton[T](sl, instance) begins: sl.mu.Lock().  The
\* instance is a value of the caller's, distinct from every other.
RegisterSingletonLock ==
    \E T \in Types : \E d \in Dyns(T) :
        /\ RegsBegun < MaxRegs
        /\ CanLock
        /\ mu' = Locked(Len(calls) + 1)
        /\ calls' = Append(calls, Call("RegisterSingleton", T, Value(d, 0, Len(calls) + 1), TRUE, "reg_single"))
        /\ UNCHANGED <<instances, providers, recs>>

\* A RegisterSingleton that also drops the provider registered under the key.
RegisterSingletonStorePurging(c) ==
    /\ calls[c].pc = "reg_single"
    /\ instances' = (getTypeKey(calls[c].T) :> calls[c].v) @@ instances
    /\ providers' = [k \in DOMAIN providers \ {getTypeKey(calls[c].T)} |-> providers[k]]
    /\ mu' = Unlocked
    /\ Return(c, Void)
    /\ UNCHANGED recs

\* sl.instances[getTypeKey[T]()] = instance; the deferred Unlock
RegisterSingletonStore(c) ==
    /\ calls[c].pc = "reg_single"
    /\ instances' = (getTypeKey(calls[c].T) :> calls[c].v) @@ instances
    /\ mu' = Unlocked
    /\ Return(c, Void)
    /\ UNCHANGED <<providers, recs>>

\* ------------------------------------------------------------------ RegisterLazySingleton
\* A call of RegisterLazySingleton[T](sl, provider) begins: sl.mu.Lock()
RegisterLazySingletonLock ==
    \E T \in Types : \E present \in BOOLEAN :
        /\ RegsBegun < MaxRegs
        /\ CanLock
        /\ mu' = Locked(Len(calls) + 1)
        /\ calls' = Append(calls, Call("RegisterLazySingleton", T, Zero(T), present, "reg_lazy"))
        /\ UNCHANGED <<instances, providers, recs>>

\* &lazySingleton[T]{provider: provider}: once unfired, instance the zero T.
NewLazySingleton(T, present) ==
    [kind |-> "lazy", T |-> T, present |-> present, once |-> "unfired", instance |-> Zero(T), calls |-> 0]

\* The func value itself, boxed as Provider[T].
NewFactory(T, present) ==
    [kind |-> "factory", T |-> T, present |-> present, once |-> "unfired", instance |-> Zero(T), calls |-> 0]

\* A registration that builds the instance at once when it is given a func.
RegisterLazySingletonStoreEager(c) ==
    LET r == Len(recs) + 1
        ls == NewLazySingleton(calls[c].T, calls[c].present)
    IN  /\ calls[c].pc = "reg_lazy"
        /\ \E d \in Dyns(calls[c].T) :
               IF calls[c].present
               THEN /\ recs' = Append(recs, [ls EXCEPT !.calls = 1, !.once = "fired", !.instance = Value(d, r, 1)])
                    /\ instances' = (getTypeKey(calls[c].T) :> Value(d, r, 1)) @@ instances
               ELSE /\ recs' = Append(recs, ls)
                    /\ UNCHANGED instances
        /\ providers' = (getTypeKey(calls[c].T) :> r) @@ providers
        /\ mu' = Unlocked
        /\ calls' = [calls EXCEPT ![c].pc = "done", ![c].ret = Void, ![c].rec = r]

\* sl.providers[getTypeKey[T]()] = &lazySingleton[T]{...}; the deferred Unlock
RegisterLazySingletonStore(c) ==
    /\ calls[c].pc = "reg_lazy"
    /\ recs' = Append(recs, NewLazySingleton(calls[c].T, calls[c].present))
    /\ providers' = (getTypeKey(calls[c].T) :> Len(recs) + 1) @@ providers
    /\ mu' = Unlocked
    /\ calls' = [calls EXCEPT ![c].pc = "done", ![c].ret = Void, ![c].rec = Len(recs) + 1]
    /\ UNCHANGED instances

\* ------------------------------------------------------------------ RegisterFactory
\* A call of RegisterFactory[T](sl, provider) begins: sl.mu.Lock()
RegisterFactoryLock ==
    \E T \in Types : \E present \in BOOLEAN :
        /\ RegsBegun < MaxRegs
        /\ CanLock
        /\ mu' = Locked(Len(calls) + 1)
        /\ calls' = Append(calls, Call("RegisterFactory", T, Zero(T), present, "reg_factory"))
        /\ UNCHANGED <<instances, providers, recs>>

\* A factory registration that, given a func, also calls it once and keeps
\* the result as the instance of the type.
RegisterFactoryStoreKeeping(c) ==
    LET r == Len(recs) + 1
        p == NewFactory(calls[c].T, calls[c].present)
    IN  /\ calls[c].pc = "reg_factory"
        /\ \E d \in Dyns(calls[c].T) :
               IF calls[c].present
               THEN /\ recs' = Append(recs, [p EXCEPT !.calls = 1])
                    /\ instances' = (getTypeKey(calls[c].T) :> Value(d, r, 1)) @@ instances
               ELSE /\ recs' = Append(recs, p)
                    /\ UNCHANGED instances
        /\ providers' = (getTypeKey(calls[c].T) :> r) @@ providers
        /\ mu' = Unlocked
        /\ calls' = [calls EXCEPT ![c].pc = "done", ![c].ret = Void, ![c].rec = r]

\* sl.providers[getTypeKey[T]()] = provider; the deferred Unlock
RegisterFactoryStore(c) ==
    /\ calls[c].pc = "reg_factory"
    /\ recs' = Append(recs, NewFactory(calls[c].T, calls[c].present))
    /\ providers' = (getTypeKey(calls[c].T) :> Len(recs) + 1) @@ providers
    /\ mu' = Unlocked
    /\ calls' = [calls EXCEPT ![c].pc = "done", ![c].ret = Void, ![c].rec = Len(recs) + 1]
    /\ UNCHANGED instances

\* ------------------------------------------------------------------ Get
\* A call of Get[T](sl) begins: sl.mu.RLock()
GetRLock ==
    \E T \in Types :
        /\ GetsBegun < MaxGets
        /\ CanRLock
        /\ mu' = RLocked(Len(calls) + 1)
        /\ calls' = Append(calls, Call("Get", T, Zero(T), FALSE, "get_lookup"))
        /\ UNCHANGED <<instances, providers, recs>>

\* The type switch on the provider found: which case the record p matches
\* for the type parameter T ("none": no case, Get falls out of the switch).
SwitchCase(p, T) ==
    IF p.kind = "lazy" /\ p.T = T THEN "lazy"
    ELSE IF p.kind = "factory" /\ p.T = T THEN "factory"
    ELSE "none"

\* return instance.(T), nil
Cast(instance, T) == IF AssertsTo(instance, T) THEN Ok(instance, 0, 0) ELSE Panic(0)

\* Get's last statement: return zero, fmt.Errorf("no provider registered for type %T", zero)
NoProviderError(T) == Err(T, Errorf(Zero(T)), 0)

\* A Get that keeps the read lock while it goes on to the provider it found.
GetLookupHolding(c) ==
    LET T == calls[c].T
        typeKey == getTypeKey(T)
    IN  /\ calls[c].pc = "get_lookup"
        /\ IF typeKey \in DOMAIN instances
           THEN /\ mu' = RUnlocked(c)
                /\ Return(c, Cast(instances[typeKey], T))
           ELSE IF typeKey \in DOMAIN providers
           THEN LET p == providers[typeKey]
                    case == SwitchCase(recs[p], T)
                IN  IF case = "none"
                    THEN /\ mu' = RUnlocked(c)
                         /\ Return(c, NoProviderError(T))
                    ELSE /\ mu' = mu
                         /\ calls' = [calls EXCEPT ![c].rec = p,
                                                     ![c].pc = IF case = "lazy" THEN "lazy_enter" ELSE "factory_call"]
           ELSE /\ mu' = RUnlocked(c)
                /\ Return(c, NoProviderError(T))
        /\ UNCHANGED <<instances, providers, recs>>

\* Get up to the point where it has released the read lock: the look-ups in
\* the two maps under RLock, RUnlock on each path, the cast of a stored
\* instance, the type switch on a provider, and the final error.
GetLookup(c) ==
    LET T == calls[c].T
        typeKey == getTypeKey(T)
    IN  /\ calls[c].pc = "get_lookup"
        /\ mu' = RUnlocked(c)
        /\ IF typeKey \in DOMAIN instances
           THEN Return(c, Cast(instances[typeKey], T))
           ELSE IF typeKey \in DOMAIN providers
           THEN LET p == providers[typeKey]
                    case == SwitchCase(recs[p], T)
                IN  IF case = "none"
                    THEN Return(c, NoProviderError(T))
                    ELSE calls' = [calls EXCEPT ![c].rec = p,
                                                ![c].pc = IF case = "lazy" THEN "lazy_enter" ELSE "factory_call"]
           ELSE Return(c, NoProviderError(T))
        /\ UNCHANGED <<instances, providers, recs>>

\* A factory that keeps what its first call made and hands it out again.
GetFactoryCallCaching(c) ==
    LET r == calls[c].rec IN
    /\ calls[c].pc = "factory_call"
    /\ IF recs[r].calls > 0
       THEN /\ Return(c, Ok(recs[r].instance, r, 0))
            /\ UNCHANGED recs
       ELSE \E d \in Dyns(calls[c].T) :
                /\ recs' = [recs EXCEPT ![r].calls = 1, ![r].instance = Value(d, r, 1)]
                /\ Return(c, Ok(Value(d, r, 1), r, 1))
    /\ UNCHANGED <<mu, instances, providers>>

\* case Provider[T]: return p(), nil.  Calling a nil func panics; a func
\* returns a new value of one of the dynamic types a T can have.
GetFactoryCall(c) ==
    LET r == calls[c].rec IN
    /\ calls[c].pc = "factory_call"
    /\ IF recs[r].present
       THEN \E d \in Dyns(calls[c].T) :
                /\ recs' = [recs EXCEPT ![r].calls = @ + 1]
                /\ Return(c, Ok(Value(d, r, recs[r].calls + 1), r, recs[r].calls + 1))
       ELSE /\ Return(c, Panic(r))
            /\ UNCHANGED recs
    /\ UNCHANGED <<mu, instances, providers>>

\* ------------------------------------------------------------------ lazySingleton.getInstance
\* A getInstance that words its error differently from Get's.
NoConstructorErrorDistinct(ls) == "no constructor registered for type " \o FormatT(ls.instance)

\* The error of getInstance when ls.provider is nil:
\* fmt.Errorf("no provider registered for type %T", ls.instance)
NoConstructorError(ls) == Errorf(ls.instance)

\* A getInstance that takes the registry lock on entering the Once, before
\* it runs the constructor.
getInstanceEnterLocking(c) ==
    LET r == calls[c].rec
        ls == recs[r]
    IN  /\ calls[c].pc = "lazy_enter"
        /\ IF ~ls.present
           THEN /\ Return(c, Err(calls[c].T, Errorf(ls.instance), r))
                /\ UNCHANGED <<recs, mu>>
           ELSE /\ ls.once # "firing"
                /\ IF ls.once = "fired"
                   THEN /\ Return(c, Ok(ls.instance, r, 0))
                        /\ UNCHANGED <<recs, mu>>
                   ELSE /\ CanLock
                        /\ mu' = Locked(c)
                        /\ recs' = [recs EXCEPT ![r].once = "firing"]
                        /\ Goto(c, "lazy_ctor")
        /\ UNCHANGED <<instances, providers>>

\* The nil check of ls.provider and the entry of ls.once.Do: a caller that
\* finds the Once done returns ls.instance, one that finds it untouched
\* takes it and goes on to run the function, one that finds another caller
\* inside waits.
getInstanceEnter(c) ==
    LET r == calls[c].rec
        ls == recs[r]
    IN  /\ calls[c].pc = "lazy_enter"
        /\ IF ~ls.present
           THEN /\ Return(c, Err(calls[c].T, NoConstructorError(ls), r))
                /\ UNCHANGED recs
           ELSE /\ ls.once # "firing"
                /\ IF ls.once = "fired"
                   THEN /\ Return(c, Ok(ls.instance, r, 0))
                        /\ UNCHANGED recs
                   ELSE /\ recs' = [recs EXCEPT ![r].once = "firing"]
                        /\ Goto(c, "lazy_ctor")
        /\ UNCHANGED <<mu, instances, providers>>

\* ls.instance = ls.provider()
getInstanceProvide(c) ==
    LET r == calls[c].rec IN
    /\ calls[c].pc = "lazy_ctor"
    /\ \E d \in Dyns(calls[c].T) :
           recs' = [recs EXCEPT ![r].calls = @ + 1,
                                ![r].instance = Value(d, r, recs[r].calls + 1)]
    /\ Goto(c, "lazy_lock")
    /\ UNCHANGED <<mu, instances, providers>>

\* A write-back that takes the read lock where it needs the write lock.
getInstanceLockShared(c) ==
    /\ calls[c].pc = "lazy_lock"
    /\ CanRLock
    /\ mu' = RLocked(c)
    /\ Goto(c, "lazy_write")
    /\ UNCHANGED <<instances, providers, recs>>

\* sl.mu.Lock() inside the once function
getInstanceLock(c) ==
    /\ calls[c].pc = "lazy_lock"
    /\ CanLock
    /\ mu' = Locked(c)
    /\ Goto(c, "lazy_write")
    /\ UNCHANGED <<instances, providers, recs>>

\* sl.instances[getTypeKey[T]()] = ls.instance; sl.mu.Unlock(); the Once is
\* done; return ls.instance, nil
getInstanceStore(c) ==
    LET r == calls[c].rec IN
    /\ calls[c].pc = "lazy_write"
    /\ instances' = (getTypeKey(calls[c].T) :> recs[r].instance) @@ instances
    /\ mu' = Unlocked
    /\ recs' = [recs EXCEPT ![r].once = "fired"]
    /\ Return(c, Ok(recs[r].instance, r, recs[r].calls))
    /\ UNCHANGED providers

\* ------------------------------------------------------------------ specification
Next ==
    \/ RegisterSingletonLock
    \/ RegisterLazySingletonLock
    \/ RegisterFactoryLock
    \/ GetRLock
    \/ \E c \in Calls : RegisterSingletonStore(c)
    \/ \E c \in Calls : RegisterLazySingletonStore(c)
    \/ \E c \in Calls : RegisterFactoryStore(c)
    \/ \E c \in Calls : GetLookup(c)
    \/ \E c \in Calls : GetFactoryCall(c)
    \/ \E c \in Calls : getInstanceEnter(c)
    \/ \E c \in Calls : getInstanceProvide(c)
    \/ \E c \in Calls : getInstanceLock(c)
    \/ \E c \in Calls : getInstanceStore(c)

Spec == Init /\ [][Next]_vars

\* A call that can take its next step takes it: the goroutine is scheduled,
\* the constructor it called returns, the lock it waits for is granted once
\* it stays free.
Step ==
    \E c \in Calls :
        \/ RegisterSingletonStore(c)
        \/ RegisterLazySingletonStore(c)
        \/ RegisterFactoryStore(c)
        \/ GetLookup(c)
        \/ GetFactoryCall(c)
        \/ getInstanceEnter(c)
        \/ getInstanceProvide(c)
        \/ getInstanceLock(c)
        \/ getInstanceStore(c)

FairSpec == Spec /\ WF_vars(Step)

\* ------------------------------------------------------------------ history
IsGet(c) == calls[c].name = "Get"
IsReg(c) == calls[c].name \in Registrations
Done(c) == calls[c].pc = "done"
RegCalls == {c \in Calls : IsReg(c)}

\* The Get calls of type T that began after call c and have returned.  (A
\* Get begins by taking the read lock, so every Register* call numbered
\* below it had completed when it began.)
GetsAfter(c, T) == {g \in Calls : g > c /\ IsGet(g) /\ calls[g].T = T /\ Done(g)}

\* The text the tests expect of the error for a requested type T: it names T.
ErrorNaming(T) == "no provider registered for type " \o T

\* Call c takes the step that leaves program point p.
Leaves(c, p) == calls[c].pc = p /\ calls'[c].pc # p

\* ------------------------------------------------------------------ C1
\* C1 (lazy single-construction): when the only registration made is one
\* RegisterLazySingleton with a present constructor for T, the constructor
\* is invoked at most once, and every Get of T that has returned returned,
\* without error, the one value that invocation produced (so it was invoked
\* exactly once).
C1_LazySingleConstruction ==
    \A l \in Calls :
        (RegCalls = {l} /\ calls[l].name = "RegisterLazySingleton" /\ calls[l].present /\ Done(l)) =>
            LET r == calls[l].rec IN
            /\ recs[r].calls <= 1
            /\ \A g \in GetsAfter(l, calls[l].T) :
                   /\ recs[r].calls = 1
                   /\ calls[g].ret.kind = "ok"
                   /\ calls[g].ret.val = recs[r].instance

\* ------------------------------------------------------------------ C2
\* C2 (singleton identity), taken for the pointer types alone, where the
\* keys of distinct types differ and the cast back cannot fail: once
\* RegisterSingleton(v) for T has completed, every Get of T that begins
\* afterwards and has returned returned v without error, as long as no
\* RegisterSingleton for T came between the two.
C2_SingletonIdentity ==
    \A s \in Calls : \A g \in Calls :
        ( /\ calls[s].name = "RegisterSingleton" /\ calls[s].T \in ConcreteTypes
          /\ g \in GetsAfter(s, calls[s].T)
          /\ ~ \E x \in Calls : x > s /\ x < g /\ calls[x].name = "RegisterSingleton" /\ calls[x].T = calls[s].T )
        => calls[g].ret = Ok(calls[s].v, 0, 0)

\* ------------------------------------------------------------------ C3
\* The Gets that a factory record r has served and that have returned.
ServedBy(r) == {g \in Calls : IsGet(g) /\ Done(g) /\ calls[g].rec = r}

\* Each Get a present factory served made one invocation of its own and
\* returned that invocation's result; the invocations made are as many as
\* the Gets served.
FactoryCounts ==
    \A r \in 1..Len(recs) :
        (recs[r].kind = "factory" /\ recs[r].present) =>
            /\ recs[r].calls = Cardinality(ServedBy(r))
            /\ \A g \in ServedBy(r) :
                   /\ calls[g].ret.kind = "ok"
                   /\ calls[g].ret.inv \in 1..recs[r].calls
                   /\ calls[g].ret.val \in {NilValue, Made(calls[g].ret.val.dyn, r, calls[g].ret.inv)}
                   /\ calls[g].ret.val.dyn \in Dyns(calls[g].T)
            /\ \A g \in ServedBy(r) : \A h \in ServedBy(r) :
                   g # h => /\ calls[g].ret.inv # calls[h].ret.inv
                            /\ (calls[g].ret.val # NilValue => calls[g].ret.val # calls[h].ret.val)

\* The registry holds a present factory for T and no instance under T's key.
FactoryRegistered(T) ==
    /\ getTypeKey(T) \notin DOMAIN instances
    /\ getTypeKey(T) \in DOMAIN providers
    /\ recs[providers[getTypeKey(T)]] = [NewFactory(T, TRUE) EXCEPT !.calls = recs[providers[getTypeKey(T)]].calls]

\* C3 (factory freshness): a Get of T that looks T up while the registry
\* holds a present factory for T and no instance for T goes on to call that
\* factory; the call invokes the constructor once and returns the result of
\* that very invocation; and at every moment the constructor has been
\* invoked once per Get served, no two Gets sharing an invocation or a
\* (non-nil) value.
C3_FactoryFreshness ==
    [][ /\ \A g \in Calls :
              (Leaves(g, "get_lookup") /\ FactoryRegistered(calls[g].T)) =>
                  /\ calls'[g].pc = "factory_call"
                  /\ calls'[g].rec = providers[getTypeKey(calls[g].T)]
        /\ \A g \in Calls :
              (Leaves(g, "factory_call") /\ recs[calls[g].rec].present) =>
                  /\ recs'[calls[g].rec].calls = recs[calls[g].rec].calls + 1
                  /\ calls'[g].ret.kind = "ok"
                  /\ calls'[g].ret.inv = recs'[calls[g].rec].calls
                  /\ instances' = instances
        /\ FactoryCounts' ]_vars

\* Two Gets of one type have been served by one present factory.
C3_Witness ==
    \E g \in Calls : \E h \in Calls :
        /\ g # h
        /\ calls[g].rec # 0 /\ calls[g].rec = calls[h].rec
        /\ recs[calls[g].rec].kind = "factory" /\ recs[calls[g].rec].present
        /\ g \in ServedBy(calls[g].rec) /\ h \in ServedBy(calls[g].rec)
        /\ recs[calls[g].rec].calls = 2
        /\ calls[g].ret.val # calls[h].ret.val

\* ------------------------------------------------------------------ C4
\* C4 (missing registration): a Get of T that looks T up while neither map
\* holds an entry under T's key returns the zero T and the error that names
\* T, and leaves both maps as they were.
C4_MissingRegistration ==
    [][ \A g \in Calls :
            ( /\ Leaves(g, "get_lookup")
              /\ getTypeKey(calls[g].T) \notin DOMAIN instances
              /\ getTypeKey(calls[g].T) \notin DOMAIN providers )
            => /\ calls'[g].pc = "done"
               /\ calls'[g].ret.kind = "err"
               /\ calls'[g].ret.val = Zero(calls[g].T)
               /\ calls'[g].ret.err = ErrorNaming(calls[g].T)
               /\ instances' = instances
               /\ providers' = providers ]_vars

\* ------------------------------------------------------------------ C5
\* C5 (absent lazy constructor): when the only registration made is one
\* RegisterLazySingleton with a nil constructor for T, every Get of T that
\* has returned failed with the error naming T, the record's Once has not
\* fired, and instances holds nothing under T's key.
C5_AbsentLazyConstructor ==
    \A l \in Calls :
        (RegCalls = {l} /\ calls[l].name = "RegisterLazySingleton" /\ ~calls[l].present /\ Done(l)) =>
            /\ recs[calls[l].rec].once = "unfired"
            /\ getTypeKey(calls[l].T) \notin DOMAIN instances
            /\ \A g \in GetsAfter(l, calls[l].T) :
                   /\ calls[g].ret.kind = "err"
                   /\ calls[g].ret.err = ErrorNaming(calls[l].T)

\* ------------------------------------------------------------------ C6
\* The Gets that have returned the error of a lazy record with a nil
\* constructor, and those that have returned Get's own final error.
FailedAtLazy(T) == {g \in Calls : IsGet(g) /\ Done(g) /\ calls[g].T = T /\ calls[g].ret.kind = "err" /\ calls[g].ret.rec # 0}
FailedAtGet(T) == {g \in Calls : IsGet(g) /\ Done(g) /\ calls[g].T = T /\ calls[g].ret.kind = "err" /\ calls[g].ret.rec = 0}

\* C6 as stated (the two error kinds are distinct): for one requested type,
\* the error of a Get that reached a lazy record with a nil constructor
\* differs from the error of a Get that found nothing registered.
C6_ErrorKindsDistinct ==
    \A T \in Types : \A g \in FailedAtLazy(T) : \A h \in FailedAtGet(T) :
        calls[g].ret.err # calls[h].ret.err

\* C6 as amended: for one requested type the two errors are the same, text
\* and value: the caller cannot tell a lazy record with a nil constructor
\* from a type with nothing registered.
C6_ErrorKindsSame ==
    \A T \in Types : \A g \in FailedAtLazy(T) : \A h \in FailedAtGet(T) :
        /\ calls[g].ret.err = calls[h].ret.err
        /\ calls[g].ret.val = calls[h].ret.val

\* One type has been asked for twice, once with nothing registered and once
\* with a lazy record that has a nil constructor, and both Gets failed.
C6_Witness ==
    \E T \in Types : FailedAtLazy(T) # {} /\ FailedAtGet(T) # {}

\* ------------------------------------------------------------------ C7
\* The value of the last RegisterSingleton for T before Get g is v.
LastSingleton(s, g) ==
    /\ calls[s].name = "RegisterSingleton"
    /\ s < g
    /\ ~ \E x \in Calls : x > s /\ x < g /\ calls[x].name = "RegisterSingleton" /\ calls[x].T = calls[s].T

\* C7 (singleton overwrite), taken for the case where nothing but
\* RegisterSingleton is ever called to register: a Get of T that begins
\* after a RegisterSingleton for T returns the value of the last one before
\* it, whether or not a RegisterSingleton for another type came after that.
C7_SingletonOverwrite ==
    \A s \in Calls : \A g \in Calls :
        ( /\ \A x \in RegCalls : calls[x].name = "RegisterSingleton" /\ calls[x].v # NilValue
          /\ LastSingleton(s, g)
          /\ g \in GetsAfter(s, calls[s].T) )
        => calls[g].ret = Ok(calls[s].v, 0, 0)

\* ------------------------------------------------------------------ C8
\* C8 (type isolation), in what the caller sees: when no Register* call
\* made before a Get of B was for B, that Get does not succeed.
C8_TypeIsolation ==
    \A g \in Calls :
        ( /\ IsGet(g) /\ Done(g)
          /\ \A x \in RegCalls : x < g => calls[x].T # calls[g].T )
        => calls[g].ret.kind # "ok"

\* ------------------------------------------------------------------ C9
\* C9 (Get never panics): every Get that has returned returned a value or an
\* error.
C9_GetNeverPanics ==
    \A g \in Calls : (IsGet(g) /\ Done(g)) => calls[g].ret.kind \in {"ok", "err"}

\* ------------------------------------------------------------------ C10
\* The Gets that have made an invocation of the constructor of record r.
Invoked(r) ==
    {g \in Calls : /\ IsGet(g) /\ calls[g].rec = r /\ calls[g].T = recs[r].T
                   /\ \/ calls[g].pc \in {"lazy_lock", "lazy_write"}
                      \/ Done(g) /\ calls[g].ret.inv # 0}

\* Every invocation of a constructor was made by a Get of the record's type.
InvokedInGet == \A r \in 1..Len(recs) : recs[r].calls = Cardinality(Invoked(r))

\* C10 (laziness): a RegisterLazySingleton or RegisterFactory call returns
\* normally, has invoked no constructor and has left instances as it was;
\* every invocation of a constructor is made inside a Get of its type, so a
\* record whose type no Get asked for has been invoked zero times.
C10_Laziness ==
    [][ /\ \A c \in Calls :
              (Leaves(c, "reg_lazy") \/ Leaves(c, "reg_factory")) =>
                  /\ calls'[c].pc = "done"
                  /\ calls'[c].ret = Void
                  /\ instances' = instances
                  /\ Len(recs') = Len(recs) + 1
                  /\ recs'[Len(recs')].calls = 0
                  /\ recs'[Len(recs')].once = "unfired"
                  /\ \A r \in 1..Len(recs) : recs'[r] = recs[r]
        /\ (Len(calls') = Len(calls) + 1 /\ calls'[Len(calls')].name \in Registrations) => (instances' = instances /\ recs' = recs)
        /\ InvokedInGet'
        /\ \A r \in 1..Len(recs') :
              (~ \E g \in 1..Len(calls') : IsGet(g)' /\ calls'[g].T = recs'[r].T) => recs'[r].calls = 0
      ]_vars

\* A lazy singleton and a factory with present constructors are registered,
\* neither has been invoked, and instances is empty.
C10_Witness ==
    \E l \in Calls : \E f \in Calls :
        /\ calls[l].name = "RegisterLazySingleton" /\ calls[l].present /\ Done(l)
        /\ calls[f].name = "RegisterFactory" /\ calls[f].present /\ Done(f)
        /\ recs[calls[l].rec].calls = 0 /\ recs[calls[f].rec].calls = 0
        /\ instances = <<>>

\* ------------------------------------------------------------------ C11
\* C11 (instances shadow providers): a Get of T that looks T up while
\* instances holds an entry under T's key returns that stored value without
\* error and invokes no constructor, whatever providers holds under the key.
C11_InstancesShadow ==
    [][ \A g \in Calls :
            (Leaves(g, "get_lookup") /\ getTypeKey(calls[g].T) \in DOMAIN instances) =>
                /\ calls'[g].pc = "done"
                /\ calls'[g].ret = Ok(instances[getTypeKey(calls[g].T)], 0, 0)
                /\ recs' = recs ]_vars

\* ------------------------------------------------------------------ C12
\* Call q is the last RegisterLazySingleton or RegisterFactory for T before
\* Get g, it replaced the registration of an earlier such call, and no
\* RegisterSingleton for T was ever called.
Reregistered(q, g) ==
    /\ calls[q].name \in {"RegisterLazySingleton", "RegisterFactory"}
    /\ q < g
    /\ \E p \in Calls : p < q /\ calls[p].name \in {"RegisterLazySingleton", "RegisterFactory"} /\ calls[p].T = calls[q].T
    /\ ~ \E x \in Calls : x > q /\ x < g /\ calls[x].name \in {"RegisterLazySingleton", "RegisterFactory"} /\ calls[x].T = calls[q].T
    /\ ~ \E s \in Calls : calls[s].name = "RegisterSingleton" /\ calls[s].T = calls[q].T

\* Get g was served by provider record r: r itself answered it (a factory
\* call, a lazy materialization or the lazy record's error), or it returned
\* from instances a value that r's constructor made.
ServedByRecord(g, r) ==
    \/ calls[g].ret.rec = r
    \/ calls[g].ret.kind = "ok" /\ calls[g].ret.val.src = r

\* C12 (provider re-registration is last-write-wins at retrieval), taken for
\* the pointer types alone: a Get of T that begins after a provider
\* registration for T replaced an earlier one is served by the record of
\* the newer registration.
C12_ProviderLastWriteWins ==
    \A q \in Calls : \A g \in Calls :
        ( /\ calls[q].T \in ConcreteTypes
          /\ Reregistered(q, g)
          /\ g \in GetsAfter(q, calls[q].T) )
        => ServedByRecord(g, calls[q].rec)

\* ------------------------------------------------------------------ C13
\* Get m has returned from materializing a lazy singleton: it made the
\* invocation of the record's constructor itself.
Materialized(m) ==
    /\ IsGet(m) /\ Done(m)
    /\ calls[m].rec # 0 /\ recs[calls[m].rec].kind = "lazy"
    /\ calls[m].ret.inv # 0

\* The only registration made is one RegisterLazySingleton, call l, with a
\* present constructor.
OnlyLazy(l) ==
    RegCalls = {l} /\ calls[l].name = "RegisterLazySingleton" /\ calls[l].present /\ Done(l)

\* What holds of the registry once Get m has returned x from materializing
\* the lazy singleton registered by l: the record's slot and instances hold
\* x, providers still holds the record, and the constructor ran once.
WrittenBack(l, m) ==
    LET r == calls[m].rec
        typeKey == getTypeKey(calls[m].T)
    IN  /\ r = calls[l].rec
        /\ calls[m].ret.kind = "ok"
        /\ recs[r].instance = calls[m].ret.val
        /\ typeKey \in DOMAIN instances /\ instances[typeKey] = calls[m].ret.val
        /\ typeKey \in DOMAIN providers /\ providers[typeKey] = r
        /\ recs[r].calls = 1

\* C13 (lazy write-back), taken where the only registration is one
\* RegisterLazySingleton for T (so no RegisterSingleton intervenes): once
\* the Get that materialized the lazy singleton has returned x, the record's
\* slot and instances[TypeKey(T)] hold x and providers still holds the
\* record; and a Get of T that begins after that return ends at its look-up
\* with x, not passing through the record and invoking nothing.
C13_LazyWriteBack ==
    [][ \A l \in Calls : \A m \in Calls :
            /\ (OnlyLazy(l) /\ Materialized(m))' => WrittenBack(l, m)'
            /\ (OnlyLazy(l) /\ Materialized(m)) =>
                   \A g \in Calls :
                       (Leaves(g, "get_lookup") /\ calls[g].T = calls[m].T) =>
                           /\ calls'[g].pc = "done"
                           /\ calls'[g].ret = Ok(calls[m].ret.val, 0, 0)
                           /\ recs' = recs
                           /\ instances' = instances ]_vars

\* ------------------------------------------------------------------ C14
\* The value under key k is the argument of a RegisterSingleton for k that
\* has completed.
FromSingleton(k) ==
    \E s \in Calls :
        /\ calls[s].name = "RegisterSingleton" /\ Done(s)
        /\ getTypeKey(calls[s].T) = k
        /\ instances[k] = calls[s].v

\* The value under key k is the result of a lazy constructor for k that has
\* been invoked and has returned.
FromLazy(k) ==
    \E r \in 1..Len(recs) :
        /\ recs[r].kind = "lazy" /\ recs[r].present
        /\ getTypeKey(recs[r].T) = k
        /\ recs[r].calls >= 1
        /\ instances[k] = recs[r].instance
        /\ instances[k] \in {NilValue, Made(instances[k].dyn, r, recs[r].calls)}

\* C14 (provenance of instances): every entry of instances holds the
\* argument of a completed RegisterSingleton for its key or the result of a
\* lazy constructor for its key that has run, and no entry holds a value a
\* factory made.
C14_InstancesProvenance ==
    \A k \in DOMAIN instances :
        /\ FromSingleton(k) \/ FromLazy(k)
        /\ instances[k].src # 0 => recs[instances[k].src].kind = "lazy"

\* instances holds a lazy singleton's value under one key while a factory
\* has served a Get of another type.
C14_Witness ==
    /\ \E k \in DOMAIN instances : instances[k].src # 0 /\ FromLazy(k)
    /\ \E g \in Calls : /\ IsGet(g) /\ Done(g) /\ calls[g].ret.kind = "ok"
                        /\ calls[g].ret.val.src # 0
                        /\ recs[calls[g].ret.val.src].kind = "factory"

\* ------------------------------------------------------------------ C15
\* The program points at which a call holds sl.mu exclusively: between Lock
\* and Unlock in the three registrations and in the write-back.
WritePoints == {"reg_single", "reg_lazy", "reg_factory", "lazy_write"}

\* Who holds the lock, by position: the writer is the one call at a write
\* point and then there are no readers; the readers are the Gets between
\* RLock and RUnlock; a Get that has returned holds nothing.
LockState ==
    /\ mu.writer \in Calls \cup {0}
    /\ mu.readers \subseteq Calls
    /\ mu.writer # 0 => mu.readers = {}
    /\ \A c \in Calls : mu.writer = c <=> calls[c].pc \in WritePoints
    /\ \A c \in Calls : c \in mu.readers <=> calls[c].pc = "get_lookup"
    /\ \A g \in Calls : (IsGet(g) /\ Done(g)) => (g \notin mu.readers /\ mu.writer # g)

\* C15 (lock discipline): a step that changes instances or providers is
\* taken by the call that holds the exclusive lock, with no reader inside;
\* the step of a Get that reads the maps is taken holding the shared lock,
\* with no writer inside, and releases it; a Get gives up the shared lock
\* at that step and no other, and never takes it again.
C15_LockDiscipline ==
    [][ /\ (instances' # instances \/ providers' # providers) =>
               /\ mu.writer \in Calls
               /\ mu.readers = {}
               /\ Leaves(mu.writer, calls[mu.writer].pc)
               /\ \A c \in Calls \ {mu.writer} : calls'[c] = calls[c]
        /\ \A g \in Calls :
               Leaves(g, "get_lookup") =>
                   /\ g \in mu.readers /\ mu.writer = 0
                   /\ g \notin mu'.readers
                   /\ instances' = instances /\ providers' = providers
        /\ \A g \in Calls : (g \in mu.readers /\ g \notin mu'.readers) => Leaves(g, "get_lookup")
        /\ \A g \in Calls : g \notin mu.readers => g \notin mu'.readers
        /\ LockState' ]_vars

\* Two Gets hold the shared lock at once, after a registration has written.
C15_Witness ==
    /\ Cardinality(mu.readers) >= 2
    /\ instances # <<>>
    /\ providers # <<>>

\* ------------------------------------------------------------------ C16
\* The most calls one behaviour makes.
MaxCalls == MaxRegs + MaxGets

InConstructor(c) == calls[c].pc \in {"lazy_ctor", "factory_call"}

\* The next step of call c.
StepOf(c) ==
    \/ RegisterSingletonStore(c)
    \/ RegisterLazySingletonStore(c)
    \/ RegisterFactoryStore(c)
    \/ GetLookup(c)
    \/ GetFactoryCall(c)
    \/ getInstanceEnter(c)
    \/ getInstanceProvide(c)
    \/ getInstanceLock(c)
    \/ getInstanceStore(c)

\* Call d cannot take a step now.
Waiting(d) == ~Done(d) /\ ~ENABLED StepOf(d)

\* Call d waits at sync.Once for the call that is inside the Once of the
\* same lazy record.
WaitsAtOnce(d) ==
    /\ calls[d].pc = "lazy_enter"
    /\ \E e \in Calls \ {d} : calls[e].rec = calls[d].rec /\ calls[e].pc \in {"lazy_ctor", "lazy_lock", "lazy_write"}

\* Call d waits for the exclusive lock, which calls that can step now hold.
WaitsForLock(d) ==
    /\ calls[d].pc = "lazy_lock"
    /\ ~CanLock
    /\ \A h \in mu.readers \cup ({mu.writer} \ {0}) : ~InConstructor(h) /\ ENABLED StepOf(h)

\* C17 (constructors run outside the registry lock): a call that is
\* executing a constructor holds neither the shared nor the exclusive lock
\* and can go on; every other call can take its step (a registration or a
\* Get of any type completes its look-up) unless it waits at the Once of a
\* lazy record that a call is inside, or waits for the lock held by calls
\* that are not in a constructor and can themselves step.
C17_ConstructorsOutsideLock ==
    \A c \in Calls :
        InConstructor(c) =>
            /\ c \notin mu.readers
            /\ mu.writer # c
            /\ ENABLED StepOf(c)
            /\ \A d \in Calls \ {c} :
                   /\ Waiting(d) => (WaitsAtOnce(d) \/ WaitsForLock(d))
                   /\ (Waiting(d) /\ calls[c].pc = "lazy_ctor" /\ calls[d].rec = calls[c].rec) => WaitsAtOnce(d)

\* While a Get of T is executing the lazy constructor, a RegisterSingleton
\* for T that began after it has completed, and so has a Get of T that
\* began later still and was served that singleton from instances.
C17_Witness ==
    \E c \in Calls : \E d \in Calls : \E g \in Calls :
        /\ calls[c].pc = "lazy_ctor"
        /\ d > c /\ calls[d].name = "RegisterSingleton" /\ calls[d].T = calls[c].T /\ Done(d)
        /\ g > d /\ IsGet(g) /\ calls[g].T = calls[c].T /\ Done(g)
        /\ calls[g].ret = Ok(calls[d].v, 0, 0)

\* ------------------------------------------------------------------ C18
\* The map m changes to n at key k alone, where it now holds v.
SetsOnly(m, n, k, v) ==
    /\ DOMAIN n = DOMAIN m \cup {k}
    /\ n[k] = v
    /\ \A j \in DOMAIN m : j # k => n[j] = m[j]

\* C18 (frame of operations): the step that ends a RegisterSingleton for T
\* sets instances at T's key alone and leaves providers; the step that ends
\* a RegisterLazySingleton or RegisterFactory for T sets providers at T's
\* key alone and leaves instances; every step of a Get of T leaves
\* providers, and leaves instances too unless it is the write-back of the
\* call that ran the lazy constructor, which sets instances at T's key
\* alone; a call that begins changes neither map.
C18_Frame ==
    [][ /\ \A c \in Calls :
               LET typeKey == getTypeKey(calls[c].T) IN
               /\ Leaves(c, "reg_single") =>
                      /\ SetsOnly(instances, instances', typeKey, calls[c].v)
                      /\ providers' = providers
               /\ (Leaves(c, "reg_lazy") \/ Leaves(c, "reg_factory")) =>
                      /\ SetsOnly(providers, providers', typeKey, Len(recs'))
                      /\ instances' = instances
               /\ (IsGet(c) /\ calls'[c] # calls[c]) =>
                      /\ providers' = providers
                      /\ IF calls[c].pc = "lazy_write"
                         THEN /\ calls'[c].ret.inv # 0
                              /\ SetsOnly(instances, instances', typeKey, calls'[c].ret.val)
                         ELSE instances' = instances
        /\ Len(calls') > Len(calls) => (instances' = instances /\ providers' = providers)
        /\ (instances' # instances \/ providers' # providers) => \E c \in Calls : calls'[c] # calls[c] ]_vars

\* instances holds a registered singleton under one key and, under another,
\* the lazy singleton that a Get has materialized and written back.
C18_Witness ==
    /\ \E j \in DOMAIN instances : \E k \in DOMAIN instances :
           j # k /\ instances[j].src = 0 /\ instances[k].src # 0
    /\ \E g \in Calls : IsGet(g) /\ Done(g) /\ calls[g].ret.inv # 0 /\ recs[calls[g].rec].kind = "lazy"

\* ------------------------------------------------------------------ C19
\* Every call made so far under T's key was made for T itself.
KeyOwnedBy(T) ==
    \A x \in Calls : getTypeKey(calls[x].T) = getTypeKey(T) => calls[x].T = T

\* C19 (entries are never removed), taken where no other type shares T's
\* key: no step takes a key out of instances or providers, and a Get of T
\* that looks T up while instances holds T's key returns a value with no
\* error, whatever was registered since.
C19_NeverRemoved ==
    [][ /\ DOMAIN instances \subseteq DOMAIN instances'
        /\ DOMAIN providers \subseteq DOMAIN providers'
        /\ \A g \in Calls :
               ( /\ Leaves(g, "get_lookup")
                 /\ getTypeKey(calls[g].T) \in DOMAIN instances
                 /\ KeyOwnedBy(calls[g].T) )
               => /\ calls'[g].pc = "done"
                  /\ calls'[g].ret.kind = "ok" ]_vars

\* ------------------------------------------------------------------ what does hold
\* The statements below limit C1, C4, C5 and C8 to the cases the code gets
\* right; each holds in every reachable state.

\* C1 where the constructor's result is not a nil interface value: one
\* invocation, and every Get of T returns its result without error.
LazySingleConstructionNonNil ==
    \A l \in Calls :
        (RegCalls = {l} /\ calls[l].name = "RegisterLazySingleton" /\ calls[l].present /\ Done(l)) =>
            LET r == calls[l].rec IN
            /\ recs[r].calls <= 1
            /\ \A g \in GetsAfter(l, calls[l].T) :
                   recs[r].instance # NilValue =>
                       /\ recs[r].calls = 1
                       /\ calls[g].ret.kind = "ok"
                       /\ calls[g].ret.val = recs[r].instance

\* In every run the constructor of a lazy record is invoked at most once.
LazyInvokedAtMostOnce ==
    \A r \in 1..Len(recs) : recs[r].kind = "lazy" => recs[r].calls <= 1

\* C4 for the types that are not interface types.
MissingRegistrationConcrete ==
    [][ \A g \in Calls :
            ( /\ Leaves(g, "get_lookup")
              /\ calls[g].T \in ConcreteTypes
              /\ getTypeKey(calls[g].T) \notin DOMAIN instances
              /\ getTypeKey(calls[g].T) \notin DOMAIN providers )
            => /\ calls'[g].pc = "done"
               /\ calls'[g].ret = Err(calls[g].T, ErrorNaming(calls[g].T), 0)
               /\ instances' = instances
               /\ providers' = providers ]_vars

\* C5 for the types that are not interface types.
AbsentLazyConstructorConcrete ==
    \A l \in Calls :
        ( /\ RegCalls = {l} /\ calls[l].name = "RegisterLazySingleton" /\ ~calls[l].present /\ Done(l)
          /\ calls[l].T \in ConcreteTypes ) =>
            /\ recs[calls[l].rec].once = "unfired"
            /\ getTypeKey(calls[l].T) \notin DOMAIN instances
            /\ \A g \in GetsAfter(l, calls[l].T) :
                   /\ calls[g].ret.kind = "err"
                   /\ calls[g].ret.err = ErrorNaming(calls[l].T)

\* C8 unless both types are interface types: the keys differ, and a Get of
\* a type that is not an interface type fails when nothing was registered
\* for it.
TypeIsolationConcrete ==
    /\ \A A \in Types : \A B \in Types :
           (A # B /\ ~(A \in InterfaceTypes /\ B \in InterfaceTypes)) => getTypeKey(A) # getTypeKey(B)
    /\ \A g \in Calls :
           ( /\ IsGet(g) /\ Done(g) /\ calls[g].T \in ConcreteTypes
             /\ \A x \in RegCalls : x < g => calls[x].T # calls[g].T )
           => calls[g].ret = NoProviderError(calls[g].T)

\* C11 but for the cast: a Get of T that finds an entry under T's key ends
\* at once, with the stored value or with the panic of the cast, and no
\* constructor runs; so no provider registered before a RegisterSingleton
\* for T serves a Get of T that begins after it.
InstancesShadowButCast ==
    [][ \A g \in Calls :
            (Leaves(g, "get_lookup") /\ getTypeKey(calls[g].T) \in DOMAIN instances) =>
                /\ calls'[g].pc = "done"
                /\ calls'[g].ret \in {Ok(instances[getTypeKey(calls[g].T)], 0, 0), Panic(0)}
                /\ calls'[g].ret.kind = "ok" <=> AssertsTo(instances[getTypeKey(calls[g].T)], calls[g].T)
                /\ recs' = recs ]_vars

\* C12 where the re-registration comes before any Get has taken up the
\* earlier lazy record: the newer record serves.
ProviderLastWriteWinsUnretrieved ==
    \A q \in Calls : \A g \in Calls :
        ( /\ calls[q].T \in ConcreteTypes
          /\ Reregistered(q, g)
          /\ g \in GetsAfter(q, calls[q].T)
          /\ ~ \E h \in Calls : h < q /\ IsGet(h) /\ calls[h].T = calls[q].T )
        => ServedByRecord(g, calls[q].rec)

\* C13 where the value the constructor made is not a nil interface value.
LazyWriteBackNonNil ==
    [][ \A l \in Calls : \A m \in Calls :
            /\ (OnlyLazy(l) /\ Materialized(m))' => WrittenBack(l, m)'
            /\ (OnlyLazy(l) /\ Materialized(m) /\ calls[m].ret.val # NilValue) =>
                   \A g \in Calls :
                       (Leaves(g, "get_lookup") /\ calls[g].T = calls[m].T) =>
                           /\ calls'[g].pc = "done"
                           /\ calls'[g].ret = Ok(calls[m].ret.val, 0, 0)
                           /\ recs' = recs
                           /\ instances' = instances ]_vars

\* The first half of C19: no step takes a key out of either map, and a Get
\* of T that finds T's key in instances never ends in an error value
\* (it returns the stored value, or the cast panics).
KeySetsGrow ==
    [][ /\ DOMAIN instances \subseteq DOMAIN instances'
        /\ DOMAIN providers \subseteq DOMAIN providers'
        /\ \A g \in Calls :
               (Leaves(g, "get_lookup") /\ getTypeKey(calls[g].T) \in DOMAIN instances) =>
                   calls'[g].ret.kind \in {"ok", "panic"} ]_vars

====
